---- MODULE Spec2Model ----
(***************************************************************************)
(* Model of the Todo server functions (src/server/todo.ts) over the todos  *)
(* table (src/db/schema.ts).                                               *)
(*                                                                         *)
(* Every server function that issues a single statement is one atomic      *)
(* action.  toggleTodo awaits two statements (SELECT, then UPDATE), so it  *)
(* is two actions and other calls may run between them.                    *)
(*                                                                         *)
(* Strings are modelled by their whitespace structure: a title is `body`   *)
(* characters that start and end with a non-space character, followed by   *)
(* `pad` trailing spaces.  Numbers sent as ids are modelled with one       *)
(* decimal digit so that non-integers can be sent.  Timestamps are the     *)
(* fixed-width digit strings toISOString produces, compared as text.       *)
(*                                                                         *)
(* The specifications share the server functions' actions:                 *)
(*   Spec        every server function with the clock running;             *)
(*   SpecTitles  every server function with titles of every shape;         *)
(*   SpecRace    two toggleTodo calls for one id, interleaved;             *)
(*   SpecPair    two calls for two different ids, interleaved.             *)
(*   SpecPage    the todos page (src/routes/todos.tsx): its event handlers *)
(*               call the server functions and re-run the loader;          *)
(*   SpecClicks  the page with handlers started by enabled buttons only;   *)
(*   SpecCreate  the create form of the page, with fairness.               *)
(* ret and issued are history variables: they record what the server       *)
(* functions returned.  race and pair are the records SpecRace and         *)
(* SpecPair keep of their two calls; no server function reads any of the   *)
(* four, nor the page.                                                     *)
(***************************************************************************)
EXTENDS Integers, Sequences, FiniteSets, TLC

\* ---------------------------------------------------------------- bounds
MaxId == 2          \* rows ever inserted (cap on the AUTOINCREMENT counter)
MaxClock == 2       \* last clock reading (milliseconds)
MaxPad == 1         \* trailing spaces of a title
NumCalls == 1       \* toggleTodo calls in flight at once, next to the other calls
NumHandlers == 2    \* event handlers of the page running at once

\* ------------------------------------------------------ program constants
MinTitleLen == 1
MaxTitleLen == 200

\* ---------------------------------------------------------------- values
None == << >>
Some(v) == << v >>

\* A title: `body` characters (first and last are not spaces) then `pad` spaces.
Str(body, pad) == [body |-> body, pad |-> pad]
StrLen(s) == s.body + s.pad
Trim(s) == IF s.body = 0 THEN Str(0, 0) ELSE Str(s.body, 0)

BodyLens == {0, MinTitleLen, MaxTitleLen, MaxTitleLen + 1}
Titles == {Str(b, p) : b \in BodyLens, p \in 0..MaxPad}

\* A number with one decimal digit: int + tenth/10.
Number(int, tenth) == [int |-> int, tenth |-> tenth]
IsInt(n) == n.tenth = 0
IsPositive(n) == n.int > 0 \/ (n.int = 0 /\ n.tenth > 0)
IdInputs == {Number(-1, 0), Number(0, 0), Number(1, 5)}
              \cup {Number(i, 0) : i \in 1..(MaxId + 1)}

\* Date.prototype.toISOString: a fixed-width digit string (two digits here).
toISOString(ms) == << ms \div 10, ms % 10 >>
\* Text comparison (SQLite BINARY collation / JS string order).
TextLess(a, b) == \E i \in 1..Len(a) :
                    /\ a[i] < b[i]
                    /\ \A j \in 1..(i - 1) : a[j] = b[j]
TextLeq(a, b) == a = b \/ TextLess(a, b)

\* ----------------------------------------------------------------- state
VARIABLES
    todos,   \* the rows of table todos
    seq,     \* sqlite_sequence: the largest id AUTOINCREMENT has assigned
    now,     \* the clock new Date() reads, in milliseconds
    calls,   \* toggleTodo calls: idle, or suspended between SELECT and UPDATE
    ret,     \* the response of the server function that completed last
    issued,  \* history: the ids createTodo has returned
    race     \* history of a two-call experiment: the table it started from,
             \* what each finished toggleTodo read and returned, and whether
             \* the other call was idle when it wrote
VARIABLES
    pair     \* history of a two-call experiment on two ids: the table it
             \* started from, the two calls, and what each returned and when

VARIABLES
    page,    \* TodoPage: the loader data it displays and its useState values
    handlers \* the event handlers of TodoPage that are running

vars == << todos, seq, now, calls, ret, issued, race, pair, page, handlers >>

\* What the callers of the server functions keep.
browser == << page, handlers >>
client == << pair, page, handlers >>

Calls == DOMAIN calls

\* ------------------------------------------------------------ responses
NoData == [id |-> None, title |-> None, completed |-> None]
Result(kind, rows, count) == [kind |-> kind, rows |-> rows, count |-> count]
ReturnRow(r) == Result("row", << r >>, 0)
ReturnNull == Result("null", << >>, 0)
ValidationError == Result("ValidationError", << >>, 0)
NoValuesToSet == Result("Error", << >>, 0)
\* A response: the server function, what it returned or raised, and the
\* number of statements it had the database run.
Response(op, result, accesses) ==
    [op |-> op, result |-> result, accesses |-> accesses]
NoResponse == Response("none", Result("none", << >>, 0), 0)
Idle == [pc |-> "idle", data |-> NoData, current |-> None]
NoRace == [on |-> FALSE, id |-> 0, todos0 |-> {}, finished |-> << >>]
NoPair == [on |-> FALSE, todos0 |-> {}, plan |-> << >>, returned |-> << >>,
           overlapped |-> FALSE]
\* TodoPage as first rendered over an empty table.
FirstPage == [todos |-> << >>, newTodoTitle |-> Str(0, 0), isCreating |-> FALSE,
              loadingIds |-> {}]
\* A handler that is not running.  ok: its server call has resolved;
\* invalidated: it has called router.invalidate().
NoHandler == [pc |-> "idle", fn |-> "none", id |-> 0, title |-> None,
              ok |-> FALSE, invalidated |-> FALSE]

\* ------------------------------------------------------------ validation
\* Mutant: z.number().int(), without positive().
idSchemaInt(input) ==
    /\ input.id # None
    /\ IsInt(input.id[1])

\* z.number().int().positive()
idSchema(input) ==
    /\ input.id # None
    /\ IsInt(input.id[1])
    /\ IsPositive(input.id[1])

\* z.string().min(1).max(200).optional(): the length is that of the string
\* as sent, it is not trimmed.
TitleSchema(title) ==
    title = None \/ (StrLen(title[1]) >= MinTitleLen /\ StrLen(title[1]) <= MaxTitleLen)

updateTodoSchema(input) ==
    /\ idSchema(input)
    /\ TitleSchema(input.title)

\* createTodo's inputValidator returns its input as it is.
createTodoValidator(input) == TRUE

\* ----------------------------------------------------------- persistence
Ids(rows) == {r.id : r \in rows}
MaxOf(S) == CHOOSE m \in S : \A x \in S : x <= m

\* Mutant: INTEGER PRIMARY KEY without AUTOINCREMENT (largest stored id + 1).
NextRowIdOfStored(rows, s) == MaxOf(Ids(rows) \cup {0}) + 1

\* INTEGER PRIMARY KEY AUTOINCREMENT: one more than the largest id ever used.
NextRowId(rows, s) == MaxOf(Ids(rows) \cup {s}) + 1

\* Mutant: completed defaults to true.
InsertRowCompleted(id, title, created, updated) ==
    [id |-> id, title |-> title, completed |-> TRUE,
     createdAt |-> created, updatedAt |-> updated]

\* Mutant: the two timestamps land in each other's column.
InsertRowSwapped(id, title, created, updated) ==
    [id |-> id, title |-> title, completed |-> FALSE,
     createdAt |-> updated, updatedAt |-> created]

\* INSERT INTO todos (title): completed takes its default, createdAt and
\* updatedAt take their $defaultFn values.
InsertRow(id, title, created, updated) ==
    [id |-> id, title |-> title, completed |-> FALSE,
     createdAt |-> created, updatedAt |-> updated]

\* WHERE id = ?
WhereId(rows, id) == {r \in rows : r.id = id}

\* Mutant: the filter is dropped from the DELETE.
WhereAny(rows) == rows

\* WHERE completed = true
WhereCompleted(rows) == {r \in rows : r.completed = TRUE}

\* UPDATE todos SET ... : the supplied columns, and updatedAt by $onUpdate.
SetRow(r, set, ts) ==
    [r EXCEPT !.title = IF set.title = None THEN @ ELSE set.title[1],
              !.completed = IF set.completed = None THEN @ ELSE set.completed[1],
              !.updatedAt = ts]

\* Mutant: an upsert, the row is inserted when no row has the id.
UpdateOrInsert(rows, id, set, ts) ==
    IF WhereId(rows, id) = {}
    THEN rows \cup {SetRow(InsertRow(id, Str(MinTitleLen, 0), ts, ts), set, ts)}
    ELSE (rows \ WhereId(rows, id)) \cup {SetRow(r, set, ts) : r \in WhereId(rows, id)}

\* Mutant: the WHERE clause is dropped from the UPDATE.
UpdateEvery(rows, id, set, ts) ==
    {SetRow(r, set, ts) : r \in rows}

UpdateWhereId(rows, id, set, ts) ==
    (rows \ WhereId(rows, id)) \cup {SetRow(r, set, ts) : r \in WhereId(rows, id)}

\* .returning() of an UPDATE ... WHERE id = ?, as `updated ?? null`
Returning(rows, id, set, ts) ==
    IF WhereId(rows, id) = {} THEN ReturnNull
    ELSE ReturnRow(SetRow(CHOOSE r \in WhereId(rows, id) : TRUE, set, ts))

\* Mutant: ORDER BY created_at, oldest first.
OrderByCreatedAtAsc(rows) ==
    {s \in [1..Cardinality(rows) -> rows] :
        /\ \A i, j \in 1..Cardinality(rows) : i # j => s[i] # s[j]
        /\ \A i, j \in 1..Cardinality(rows) :
              i < j => TextLeq(s[i].createdAt, s[j].createdAt)}

\* ORDER BY created_at DESC: rows with equal created_at come in any order.
OrderByCreatedAtDesc(rows) ==
    {s \in [1..Cardinality(rows) -> rows] :
        /\ \A i, j \in 1..Cardinality(rows) : i # j => s[i] # s[j]
        /\ \A i, j \in 1..Cardinality(rows) :
              i < j => TextLeq(s[j].createdAt, s[i].createdAt)}

\* ------------------------------------------------------------------ Init
Init ==
    /\ todos = {}
    /\ seq = 0
    /\ now = 0
    /\ calls = [c \in 1..NumCalls |-> Idle]
    /\ ret = NoResponse
    /\ issued = {}
    /\ race = NoRace
    /\ pair = NoPair
    /\ page = FirstPage
    /\ handlers = [h \in 1..NumHandlers |-> NoHandler]

\* --------------------------------------------------------------- actions
\* The clock advances.
Tick ==
    /\ now < MaxClock
    /\ now' = now + 1
    /\ UNCHANGED << todos, seq, calls, ret, issued, race >>

getTodos ==
    /\ \E result \in OrderByCreatedAtDesc(todos) :
          ret' = Response("getTodos", Result("list", result, 0), 1)
    /\ UNCHANGED << todos, seq, now, calls, issued, race >>

\* The two $defaultFn calls read the clock one after the other: it advances
\* by `d` between them.
createTodo(title, d) ==
    LET data == [NoData EXCEPT !.title = Some(title)] IN
    /\ seq < MaxId
    /\ now + d <= MaxClock
    /\ IF createTodoValidator(data)
       THEN LET newTodo == InsertRow(NextRowId(todos, seq), data.title[1],
                                     toISOString(now), toISOString(now + d))
            IN /\ todos' = todos \cup {newTodo}
               /\ seq' = newTodo.id
               /\ now' = now + d
               /\ issued' = issued \cup {newTodo.id}
               /\ ret' = Response("createTodo", ReturnRow(newTodo), 1)
       ELSE /\ ret' = Response("createTodo", ValidationError, 0)
            /\ UNCHANGED << todos, seq, now, issued >>
    /\ UNCHANGED << calls, race >>

\* updateTodo as a function of the table and its input: the table it leaves
\* and its response.  db.update(todos).set(updateData) rejects an updateData
\* without any value ("No values to set") before a statement is built.
updateTodoCall(id, title, completed) ==
    LET data == [id |-> Some(id), title |-> title, completed |-> completed]
        updateData == [title |-> data.title, completed |-> data.completed]
    IN
    IF ~updateTodoSchema(data)
    THEN [todos |-> todos, ret |-> Response("updateTodo", ValidationError, 0)]
    ELSE IF updateData.title = None /\ updateData.completed = None
    THEN [todos |-> todos, ret |-> Response("updateTodo", NoValuesToSet, 0)]
    ELSE [todos |-> UpdateWhereId(todos, id.int, updateData, toISOString(now)),
          ret |-> Response("updateTodo",
                           Returning(todos, id.int, updateData, toISOString(now)), 1)]

updateTodo(id, title, completed) ==
    /\ todos' = updateTodoCall(id, title, completed).todos
    /\ ret' = updateTodoCall(id, title, completed).ret
    /\ UNCHANGED << seq, now, calls, issued, race >>

\* `current`, the row toggleTodo selected: the handler reads its completed only.
Current(r) == [completed |-> r.completed]

\* toggleTodo up to its first await, as a function of the table and its
\* input: validation and the SELECT.  A call that found its row is suspended
\* and has not responded yet.
toggleTodoSelect(c, id) ==
    LET data == [NoData EXCEPT !.id = Some(id)] IN
    IF ~idSchema(data)
    THEN [calls |-> calls, ret |-> Response("toggleTodo", ValidationError, 0)]
    ELSE IF WhereId(todos, id.int) = {}
    THEN [calls |-> calls, ret |-> Response("toggleTodo", ReturnNull, 1)]
    ELSE [calls |-> [calls EXCEPT ![c] =
                       [pc |-> "selected", data |-> data,
                        current |-> Some(Current(CHOOSE r \in WhereId(todos, id.int) : TRUE))]],
          ret |-> ret]

toggleTodo_select(c, id) ==
    /\ calls[c].pc = "idle"
    /\ calls' = toggleTodoSelect(c, id).calls
    /\ ret' = toggleTodoSelect(c, id).ret
    /\ UNCHANGED << todos, seq, now, issued, race >>

\* Mutant: toggleTodo marks the row completed whatever it read.
ToggleSetCompleted(current) == [title |-> None, completed |-> Some(TRUE)]

\* What toggleTodo writes: the negation of what it read.
ToggleSet(current) == [title |-> None, completed |-> Some(~current.completed)]

\* Mutant: one statement, UPDATE todos SET completed = NOT completed.
toggleTodo_updateAtomic(c) ==
    /\ calls[c].pc = "selected"
    /\ LET id == calls[c].data.id[1].int
           row == IF WhereId(todos, id) = {} THEN calls[c].current[1]
                  ELSE CHOOSE r \in WhereId(todos, id) : TRUE
           set == ToggleSet(row)
           result == Returning(todos, id, set, toISOString(now))
       IN /\ todos' = UpdateWhereId(todos, id, set, toISOString(now))
          /\ ret' = Response("toggleTodo", result, 2)
          /\ race' = IF race.on
                     THEN [race EXCEPT !.finished =
                             Append(@, [call |-> c, read |-> calls[c].current[1],
                                        result |-> result,
                                        alone |-> \A c2 \in Calls \ {c} :
                                                     calls[c2].pc = "idle"])]
                     ELSE race
    /\ calls' = [calls EXCEPT ![c] = Idle]
    /\ UNCHANGED << seq, now, issued >>

\* toggleTodo after the SELECT: the UPDATE and the return.
toggleTodo_update(c) ==
    /\ calls[c].pc = "selected"
    /\ LET id == calls[c].data.id[1].int
           set == ToggleSet(calls[c].current[1])
           result == Returning(todos, id, set, toISOString(now))
       IN /\ todos' = UpdateWhereId(todos, id, set, toISOString(now))
          /\ ret' = Response("toggleTodo", result, 2)
          /\ race' = IF race.on
                     THEN [race EXCEPT !.finished =
                             Append(@, [call |-> c, read |-> calls[c].current[1],
                                        result |-> result,
                                        alone |-> \A c2 \in Calls \ {c} :
                                                     calls[c2].pc = "idle"])]
                     ELSE race
    /\ calls' = [calls EXCEPT ![c] = Idle]
    /\ UNCHANGED << seq, now, issued >>

\* Mutant: deleting an id no row has is an error.
deleteTodoCallStrict(id) ==
    LET data == [NoData EXCEPT !.id = Some(id)] IN
    IF ~idSchema(data)
    THEN [todos |-> todos, ret |-> Response("deleteTodo", ValidationError, 0)]
    ELSE IF WhereId(todos, id.int) = {}
    THEN [todos |-> todos, ret |-> Response("deleteTodo", Result("Error", << >>, 0), 1)]
    ELSE [todos |-> todos \ WhereId(todos, id.int),
          ret |-> Response("deleteTodo", Result("success", << >>, 0), 1)]

\* deleteTodo as a function of the table and its input.
deleteTodoCall(id) ==
    LET data == [NoData EXCEPT !.id = Some(id)] IN
    IF ~idSchema(data)
    THEN [todos |-> todos, ret |-> Response("deleteTodo", ValidationError, 0)]
    ELSE [todos |-> todos \ WhereId(todos, id.int),
          ret |-> Response("deleteTodo", Result("success", << >>, 0), 1)]

deleteTodo(id) ==
    /\ todos' = deleteTodoCall(id).todos
    /\ ret' = deleteTodoCall(id).ret
    /\ UNCHANGED << seq, now, calls, issued, race >>

deleteCompletedTodos ==
    /\ todos' = todos \ WhereCompleted(todos)
    /\ ret' = Response("deleteCompletedTodos", Result("count", << >>, Cardinality(WhereCompleted(todos))), 1)
    /\ UNCHANGED << seq, now, calls, issued, race >>

\* -------------------------------------------------------- specifications
Optional(S) == {None} \cup {Some(v) : v \in S}

\* Spec: every server function, the clock running, titles "" and "a".
ShortTitles == {Str(0, 0), Str(MinTitleLen, 0)}

Next ==
    \/ Tick /\ UNCHANGED client
    \/ getTodos /\ UNCHANGED client
    \/ \E title \in ShortTitles, d \in 0..1 : createTodo(title, d) /\ UNCHANGED client
    \/ \E id \in IdInputs, title \in Optional(ShortTitles), completed \in Optional(BOOLEAN) :
          updateTodo(id, title, completed) /\ UNCHANGED client
    \/ \E c \in Calls, id \in IdInputs : toggleTodo_select(c, id) /\ UNCHANGED client
    \/ \E c \in Calls : toggleTodo_update(c) /\ UNCHANGED client
    \/ \E id \in IdInputs : deleteTodo(id) /\ UNCHANGED client
    \/ deleteCompletedTodos /\ UNCHANGED client

Spec == Init /\ [][Next]_vars

\* SpecTitles: every server function with titles of every shape and length,
\* all within one clock reading.
NextTitles ==
    \/ getTodos /\ UNCHANGED client
    \/ \E title \in Titles : createTodo(title, 0) /\ UNCHANGED client
    \/ \E id \in IdInputs, title \in Optional(Titles), completed \in Optional(BOOLEAN) :
          updateTodo(id, title, completed) /\ UNCHANGED client
    \/ \E c \in Calls, id \in IdInputs : toggleTodo_select(c, id) /\ UNCHANGED client
    \/ \E c \in Calls : toggleTodo_update(c) /\ UNCHANGED client
    \/ \E id \in IdInputs : deleteTodo(id) /\ UNCHANGED client
    \/ deleteCompletedTodos /\ UNCHANGED client

SpecTitles == Init /\ [][NextTitles]_vars

\* SpecRace: two toggleTodo calls for the same stored id, each issued once,
\* with their statements interleaved in every order.  It starts from a table
\* that createTodo, toggleTodo and the clock can produce.
RaceRow(id, completed) ==
    [InsertRow(id, Str(MinTitleLen, 0), toISOString(0), toISOString(0))
        EXCEPT !.completed = completed]
RaceStores ==
    {{RaceRow(1, b)} : b \in BOOLEAN}
      \cup {{RaceRow(1, b1), RaceRow(2, b2)} : b1 \in BOOLEAN, b2 \in BOOLEAN}

InitRace ==
    /\ todos \in RaceStores
    /\ seq = MaxOf(Ids(todos))
    /\ issued = Ids(todos)
    /\ now = 0
    /\ calls = [c \in 1..2 |-> Idle]
    /\ ret = NoResponse
    /\ \E id \in Ids(todos) : race = [on |-> TRUE, id |-> id, todos0 |-> todos, finished |-> << >>]
    /\ pair = NoPair
    /\ page = FirstPage
    /\ handlers = [h \in 1..NumHandlers |-> NoHandler]

RaceIssued(c) == calls[c].pc # "idle" \/ \E i \in 1..Len(race.finished) : race.finished[i].call = c

RaceToggle(c) ==
    /\ ~RaceIssued(c)
    /\ toggleTodo_select(c, Number(race.id, 0))

NextRace ==
    \/ Tick /\ UNCHANGED client
    \/ \E c \in Calls : RaceToggle(c) /\ UNCHANGED client
    \/ \E c \in Calls : toggleTodo_update(c) /\ UNCHANGED client

SpecRace == InitRace /\ [][NextRace]_vars

\* SpecPair: two calls out of toggleTodo, updateTodo and deleteTodo, the
\* first for id 1 and the second for id 2, each issued once, with their
\* statements interleaved in every order while the clock runs.  Row 1 is
\* stored; row 2 is stored or not.
PairTitle == Str(MaxTitleLen, 0)
PairCalls(id) ==
    {[op |-> "toggleTodo", id |-> Number(id, 0), title |-> None, completed |-> None],
     [op |-> "deleteTodo", id |-> Number(id, 0), title |-> None, completed |-> None]}
      \cup {[op |-> "updateTodo", id |-> Number(id, 0), title |-> t, completed |-> b] :
               t \in Optional({PairTitle}), b \in Optional(BOOLEAN)}

InitPair ==
    /\ todos \in RaceStores
    /\ seq = MaxOf(Ids(todos))
    /\ issued = Ids(todos)
    /\ now = 0
    /\ calls = [c \in 1..2 |-> Idle]
    /\ ret = NoResponse
    /\ race = NoRace
    /\ \E p1 \in PairCalls(1), p2 \in PairCalls(2) :
          pair = [on |-> TRUE, todos0 |-> todos, plan |-> << p1, p2 >>,
                  returned |-> << None, None >>, overlapped |-> FALSE]
    /\ page = FirstPage
    /\ handlers = [h \in 1..NumHandlers |-> NoHandler]

\* Call c has returned `result`, having written at clock reading `ts`.
PairReturned(c, result, ts) ==
    [pair EXCEPT !.returned[c] = Some([result |-> result, ts |-> ts]),
                 !.overlapped = @ \/ \E c2 \in Calls \ {c} : calls[c2].pc = "selected"]

\* The first statement of call c, which for updateTodo and deleteTodo is the
\* whole call.
PairIssue(c) ==
    LET p == pair.plan[c] IN
    /\ pair.returned[c] = None
    /\ calls[c].pc = "idle"
    /\ \/ /\ p.op = "toggleTodo"
          /\ toggleTodo_select(c, p.id)
          /\ pair' = IF calls'[c].pc = "idle"
                     THEN PairReturned(c, ret'.result, now)
                     ELSE [pair EXCEPT !.overlapped =
                             @ \/ \E c2 \in Calls \ {c} : calls[c2].pc = "selected"]
       \/ /\ p.op = "updateTodo"
          /\ updateTodo(p.id, p.title, p.completed)
          /\ pair' = PairReturned(c, ret'.result, now)
       \/ /\ p.op = "deleteTodo"
          /\ deleteTodo(p.id)
          /\ pair' = PairReturned(c, ret'.result, now)
    /\ UNCHANGED browser

\* The UPDATE of a toggleTodo call.
PairFinish(c) ==
    /\ toggleTodo_update(c)
    /\ pair' = PairReturned(c, ret'.result, now)
    /\ UNCHANGED browser

NextPair ==
    \/ Tick /\ UNCHANGED client
    \/ \E c \in Calls : PairIssue(c)
    \/ \E c \in Calls : PairFinish(c)

SpecPair == InitPair /\ [][NextPair]_vars

\* ------------------------------------------------------------- the page
\* TodoPage (src/routes/todos.tsx).  An event handler is the steps between
\* its awaits: its synchronous start, the server function it awaits (run by
\* the server, which answers or not), then either router.invalidate(), which
\* re-runs the loader's getTodos and has the page display what it returns, or
\* the catch block, and last what it does on its way out.
Handlers == DOMAIN handlers
Displayed == {page.todos[i].id : i \in 1..Len(page.todos)}
TypedTitles == {Str(0, MaxPad), Str(MinTitleLen, MaxPad)}

Start(h, fn, id, title) ==
    [handlers EXCEPT ![h] = [pc |-> "calling", fn |-> fn, id |-> id, title |-> title,
                             ok |-> FALSE, invalidated |-> FALSE]]

\* onChange of the title input, which is disabled while isCreating.
setNewTodoTitle(title) ==
    /\ ~page.isCreating
    /\ page' = [page EXCEPT !.newTodoTitle = title]
    /\ UNCHANGED << todos, seq, now, calls, ret, issued, race, pair, handlers >>

handleCreate(h) ==
    /\ handlers[h].pc = "idle"
    /\ ~(StrLen(Trim(page.newTodoTitle)) = 0 \/ page.isCreating)
    /\ page' = [page EXCEPT !.isCreating = TRUE]
    /\ handlers' = Start(h, "handleCreate", 0, Some(Trim(page.newTodoTitle)))
    /\ UNCHANGED << todos, seq, now, calls, ret, issued, race, pair >>

handleToggle(h, id) ==
    /\ handlers[h].pc = "idle"
    /\ page' = [page EXCEPT !.loadingIds = @ \cup {id}]
    /\ handlers' = Start(h, "handleToggle", id, None)
    /\ UNCHANGED << todos, seq, now, calls, ret, issued, race, pair >>

\* Mutant: handleDelete takes the row off the displayed list at once.
handleDeleteOptimistic(h, id) ==
    /\ handlers[h].pc = "idle"
    /\ page' = [page EXCEPT !.loadingIds = @ \cup {id},
                            !.todos = SelectSeq(@, LAMBDA r : r.id # id)]
    /\ handlers' = Start(h, "handleDelete", id, None)
    /\ UNCHANGED << todos, seq, now, calls, ret, issued, race, pair >>

handleDelete(h, id) ==
    /\ handlers[h].pc = "idle"
    /\ page' = [page EXCEPT !.loadingIds = @ \cup {id}]
    /\ handlers' = Start(h, "handleDelete", id, None)
    /\ UNCHANGED << todos, seq, now, calls, ret, issued, race, pair >>

handleDeleteCompleted(h) ==
    /\ handlers[h].pc = "idle"
    /\ handlers' = Start(h, "handleDeleteCompleted", 0, None)
    /\ UNCHANGED << todos, seq, now, calls, ret, issued, race, pair, page >>

\* The server function a handler awaits runs; toggleTodo that found its row
\* has its UPDATE still to run.
Serve(h) ==
    /\ handlers[h].pc = "calling"
    /\ \/ /\ handlers[h].fn = "handleCreate"
          /\ createTodo(handlers[h].title[1], 0)
       \/ /\ handlers[h].fn = "handleToggle"
          /\ \/ toggleTodo_select(h, Number(handlers[h].id, 0))
             \/ toggleTodo_update(h)
       \/ /\ handlers[h].fn = "handleDelete"
          /\ deleteTodo(Number(handlers[h].id, 0))
       \/ /\ handlers[h].fn = "handleDeleteCompleted"
          /\ deleteCompletedTodos
    /\ handlers' = IF calls'[h].pc = "idle"
                   THEN [handlers EXCEPT ![h].pc = "served"]
                   ELSE handlers
    /\ UNCHANGED << pair, page >>

\* Mutant: the handler goes on without router.invalidate().
InvalidateSkipped(h) ==
    /\ handlers[h].pc = "served"
    /\ page' = IF handlers[h].fn = "handleCreate"
               THEN [page EXCEPT !.newTodoTitle = Str(0, 0)]
               ELSE page
    /\ handlers' = [handlers EXCEPT ![h].pc = "finally", ![h].ok = TRUE]
    /\ UNCHANGED << todos, seq, now, calls, ret, issued, race, pair >>

\* The awaited server call resolves; handleCreate clears the title input;
\* router.invalidate() re-runs the loader and the page shows its data.
Invalidate(h) ==
    /\ handlers[h].pc = "served"
    /\ getTodos
    /\ page' = [page EXCEPT !.todos = ret'.result.rows,
                            !.newTodoTitle = IF handlers[h].fn = "handleCreate"
                                             THEN Str(0, 0) ELSE @]
    /\ handlers' = [handlers EXCEPT ![h].pc = "finally", ![h].ok = TRUE,
                                    ![h].invalidated = TRUE]
    /\ UNCHANGED pair

\* The awaited server call rejects (the request or the response is lost,
\* or the server function raised): the catch block logs the error.
Catch(h) ==
    /\ handlers[h].pc \in {"calling", "served"}
    /\ calls[h].pc = "idle"
    /\ handlers' = [handlers EXCEPT ![h].pc = "finally"]
    /\ UNCHANGED << todos, seq, now, calls, ret, issued, race, pair, page >>

\* Mutant: handleCreate leaves isCreating set.
FinallyStillCreating(h) ==
    /\ handlers[h].pc = "finally"
    /\ page' = [page EXCEPT
                  !.loadingIds = IF handlers[h].fn \in {"handleToggle", "handleDelete"}
                                 THEN @ \ {handlers[h].id} ELSE @]
    /\ handlers' = [handlers EXCEPT ![h] = NoHandler]
    /\ UNCHANGED << todos, seq, now, calls, ret, issued, race, pair >>

\* The finally block, and the return.
Finally(h) ==
    /\ handlers[h].pc = "finally"
    /\ page' = [page EXCEPT
                  !.isCreating = IF handlers[h].fn = "handleCreate" THEN FALSE ELSE @,
                  !.loadingIds = IF handlers[h].fn \in {"handleToggle", "handleDelete"}
                                 THEN @ \ {handlers[h].id} ELSE @]
    /\ handlers' = [handlers EXCEPT ![h] = NoHandler]
    /\ UNCHANGED << todos, seq, now, calls, ret, issued, race, pair >>

\* SpecPage: the page over an empty table, all within one clock reading.
InitPage ==
    /\ todos = {}
    /\ seq = 0
    /\ now = 0
    /\ calls = [h \in 1..NumHandlers |-> Idle]
    /\ ret = NoResponse
    /\ issued = {}
    /\ race = NoRace
    /\ pair = NoPair
    /\ page = FirstPage
    /\ handlers = [h \in 1..NumHandlers |-> NoHandler]

NextPage ==
    \/ \E title \in TypedTitles : setNewTodoTitle(title)
    \/ \E h \in Handlers : handleCreate(h)
    \/ \E h \in Handlers, id \in Displayed : handleToggle(h, id)
    \/ \E h \in Handlers, id \in Displayed : handleDelete(h, id)
    \/ \E h \in Handlers : handleDeleteCompleted(h)
    \/ \E h \in Handlers : Serve(h)
    \/ \E h \in Handlers : Invalidate(h)
    \/ \E h \in Handlers : Catch(h)
    \/ \E h \in Handlers : Finally(h)

SpecPage == InitPage /\ [][NextPage]_vars

\* SpecClicks: the page with handleToggle and handleDelete started by the
\* buttons of TodoItem only, which are disabled while the row's id is in
\* loadingIds.
onToggle(h, id) ==
    /\ id \notin page.loadingIds
    /\ handleToggle(h, id)

onDelete(h, id) ==
    /\ id \notin page.loadingIds
    /\ handleDelete(h, id)

NextClicks ==
    \/ \E title \in TypedTitles : setNewTodoTitle(title)
    \/ \E h \in Handlers : handleCreate(h)
    \/ \E h \in Handlers, id \in Displayed : onToggle(h, id)
    \/ \E h \in Handlers, id \in Displayed : onDelete(h, id)
    \/ \E h \in Handlers : handleDeleteCompleted(h)
    \/ \E h \in Handlers : Serve(h)
    \/ \E h \in Handlers : Invalidate(h)
    \/ \E h \in Handlers : Catch(h)
    \/ \E h \in Handlers : Finally(h)

SpecClicks == InitPage /\ [][NextClicks]_vars

\* SpecCreate: the create form of the page on its own, with the clock
\* running.  A running handler
\* takes its next step in the end: the call it awaits resolves or rejects,
\* and the event loop then runs what follows the await.
HandlerStep(h) == Serve(h) \/ Invalidate(h) \/ Catch(h) \/ Finally(h)

NextCreate ==
    \/ Tick /\ UNCHANGED client
    \/ \E title \in TypedTitles : setNewTodoTitle(title)
    \/ \E h \in Handlers : handleCreate(h)
    \/ \E h \in Handlers : Serve(h)
    \/ \E h \in Handlers : Invalidate(h)
    \/ \E h \in Handlers : Catch(h)
    \/ \E h \in Handlers : Finally(h)

SpecCreate ==
    /\ InitPage
    /\ [][NextCreate]_vars
    /\ \A h \in 1..NumHandlers : WF_vars(HandlerStep(h))

\* ================================================================ claims
InvalidCreateTitle(t) == StrLen(Trim(t)) = 0 \/ StrLen(t) > MaxTitleLen
ValidCreateTitle(t) == StrLen(Trim(t)) >= MinTitleLen /\ StrLen(Trim(t)) <= MaxTitleLen
Returned == ret.result.rows[1]
ReturnedNext == ret'.result.rows[1]

\* C1: createTodo with a title that is blank after trimming, or longer than
\* 200 characters, raises a validation error and leaves the table as it was.
C1_CreateRejectsInvalidTitle ==
    [][\A t \in Titles, d \in 0..1 :
          (createTodo(t, d) /\ InvalidCreateTitle(t))
             => (ret'.result.kind = "ValidationError" /\ todos' = todos)]_vars

\* C2: every stored row has a title of 1 to 200 characters.
C2_StoredTitleLength ==
    \A r \in todos : StrLen(r.title) >= MinTitleLen /\ StrLen(r.title) <= MaxTitleLen

\* C3: when two toggleTodo calls for the same stored id have both returned,
\* the row's completed is the negation of its initial value if both calls
\* read before either wrote (both read the same value: one toggle is lost),
\* and is its initial value if the second call read after the first wrote.
RaceInitial == (CHOOSE r \in race.todos0 : r.id = race.id).completed
RaceFinal == (CHOOSE r \in todos : r.id = race.id).completed
RaceBothDone == race.on /\ Len(race.finished) = 2
RaceBothReadFirst ==
    race.finished[1].read.completed = race.finished[2].read.completed

C3_ToggleRace ==
    RaceBothDone =>
        /\ \A i \in 1..2 : race.finished[i].result.kind = "row"
        /\ race.finished[1].read.completed = RaceInitial
        /\ RaceFinal = (IF RaceBothReadFirst THEN ~RaceInitial ELSE RaceInitial)

\* C3 witness: both calls returned, both had read before either wrote, and
\* the row ends as the negation of its initial value.
C3_LostUpdate ==
    RaceBothDone /\ RaceBothReadFirst /\ RaceFinal = ~RaceInitial

\* C3, the other interleaving: the calls ran one after the other and the row
\* ends with its initial value.
C3_Serial ==
    RaceBothDone /\ ~RaceBothReadFirst /\ RaceFinal = RaceInitial

C5_CreateTimestampsEqual ==
    [][\A t \in Titles, d \in 0..1 :
          createTodo(t, d) => ReturnedNext.createdAt = ReturnedNext.updatedAt]_vars

\* C6: no two stored rows share an id, and the id createTodo assigns is none
\* of the ids assigned before, those of deleted rows included.
UniqueIds == \A r1, r2 \in todos : r1.id = r2.id => r1 = r2

C6_IdsNeverReused ==
    [][/\ UniqueIds'
       /\ \A t \in Titles, d \in 0..1 :
             createTodo(t, d) =>
                /\ ReturnedNext.id \notin issued
                /\ ReturnedNext.id \notin Ids(todos)]_vars

\* C6 witness: createTodo returned id 2 after the row with id 1 was deleted.
C6_CreatedAfterDelete ==
    /\ ret.op = "createTodo"
    /\ Returned.id = 2
    /\ 1 \in issued
    /\ 1 \notin Ids(todos)

\* C7: every stored row has updatedAt >= createdAt; createdAt of a row never
\* changes; an updateTodo or toggleTodo that changes the table returns the
\* row with the current time as updatedAt.  (Every step that changes the
\* table sets ret to its own response.)
C7_UpdatedNotBeforeCreated ==
    [][/\ \A r \in todos' : TextLeq(r.createdAt, r.updatedAt)
       /\ \A r \in todos, r2 \in todos' : r.id = r2.id => r2.createdAt = r.createdAt
       /\ (ret'.op \in {"updateTodo", "toggleTodo"} /\ ret'.result.kind = "row"
             /\ todos' # todos)
            => (ReturnedNext \in todos'
                 /\ ReturnedNext.updatedAt = toISOString(now))]_vars

\* C7 witness: a row updated at a later clock reading than it was created at.
C7_UpdatedLater ==
    /\ ret.op \in {"updateTodo", "toggleTodo"}
    /\ ret.result.kind = "row"
    /\ Returned \in todos
    /\ TextLess(Returned.createdAt, Returned.updatedAt)

\* C8: toggleTodo and updateTodo with a valid id that no row has return null
\* without raising, and leave the table as it was.
ValidId(id) == IsInt(id) /\ IsPositive(id)

C8_AbsentIdReturnsNull ==
    [][\A id \in IdInputs :
          (ValidId(id) /\ id.int \notin Ids(todos)) =>
             /\ \A c \in Calls :
                   toggleTodo_select(c, id) =>
                      (ret'.result.kind = "null" /\ todos' = todos)
             /\ \A title \in Optional(Titles), completed \in Optional(BOOLEAN) :
                   (updateTodo(id, title, completed) /\ TitleSchema(title)) =>
                      (ret'.result.kind = "null" /\ todos' = todos)]_vars

\* C9: in every state, toggleTodo, updateTodo and deleteTodo called with an
\* id that is zero, negative or not an integer, and updateTodo called with a
\* title that is empty or longer than 200 characters, raise a validation
\* error without any statement having run: the table and the calls in flight
\* stay as they are.
InvalidIds == {id \in IdInputs : ~ValidId(id)}
InvalidUpdates ==
    {u \in IdInputs \X Optional(Titles) \X Optional(BOOLEAN) :
        \/ ~ValidId(u[1])
        \/ (u[2] # None /\ (StrLen(u[2][1]) = 0 \/ StrLen(u[2][1]) > MaxTitleLen))}
Rejected(response) ==
    /\ response.result.kind = "ValidationError"
    /\ response.accesses = 0

C10_DeleteCompleted ==
    [][/\ deleteCompletedTodos =>
             /\ todos' = {r \in todos : r.completed = FALSE}
             /\ ret'.result.kind = "count"
             /\ ret'.result.count = Cardinality(todos) - Cardinality(todos')
       /\ (getTodos /\ ret.op = "deleteCompletedTodos") =>
             \A i \in 1..Len(ret'.result.rows) : ret'.result.rows[i].completed = FALSE]_vars

\* C10 witness: deleteCompletedTodos removed a row and left another.
C10_RemovedSome ==
    /\ ret.op = "deleteCompletedTodos"
    /\ ret.result.count >= 1
    /\ todos # {}

\* C11: when two toggleTodo calls for the same stored id run one after the
\* other (the first wrote while the second was idle, so the second read after
\* it), the first returns the row with completed negated and stores it so,
\* and after the second the row's completed is what it was before the first;
\* no other row changes.
RaceFirstAlone == race.on /\ Len(race.finished) >= 1 /\ race.finished[1].alone
RaceOthersKept ==
    {r \in todos : r.id # race.id} = {r \in race.todos0 : r.id # race.id}

C11_ToggleInvolution ==
    RaceFirstAlone =>
        /\ race.finished[1].result.kind = "row"
        /\ race.finished[1].result.rows[1].id = race.id
        /\ race.finished[1].result.rows[1].completed = ~RaceInitial
        /\ RaceOthersKept
        /\ Len(race.finished) = 1 => RaceFinal = ~RaceInitial
        /\ Len(race.finished) = 2 =>
              /\ race.finished[2].result.kind = "row"
              /\ race.finished[2].result.rows[1].completed = RaceInitial
              /\ RaceFinal = RaceInitial

\* C11 witness: two toggles ran one after the other at different clock
\* readings; completed is back to its initial value and updatedAt advanced
\* both times.
C11_ToggledTwice ==
    /\ RaceBothDone
    /\ race.finished[1].alone
    /\ RaceFinal = RaceInitial
    /\ TextLess(race.finished[1].result.rows[1].updatedAt,
                race.finished[2].result.rows[1].updatedAt)

\* C12: deleteTodo with a positive integer id returns success whether or not
\* a row has that id; afterwards no row has the id and every other row is as
\* it was; called for an id no row has (as a second call is) it leaves the
\* table exactly as it was.
C12_DeleteIdempotent ==
    [][\A id \in IdInputs :
          (deleteTodo(id) /\ ValidId(id)) =>
             /\ ret'.result.kind = "success"
             /\ id.int \notin Ids(todos')
             /\ todos' = {r \in todos : r.id # id.int}
             /\ (id.int \notin Ids(todos) => todos' = todos)
             /\ deleteTodoCall(id)'.ret.result.kind = "success"
             /\ deleteTodoCall(id)'.todos = todos']_vars

\* C12 witness: deleteTodo returned success, an id createTodo had returned is
\* stored no more, and another row is still there.
C12_Deleted ==
    /\ ret.op = "deleteTodo"
    /\ ret.result.kind = "success"
    /\ issued \ Ids(todos) # {}
    /\ todos # {}

\* C13: a getTodos that follows a createTodo which returned row X, with no
\* other server function having returned in between, lists exactly one row
\* equal to X and lists it first, also when an older row has the createdAt
\* of X.
ListedNext == ret'.result.rows

C13_CreatedListedFirst ==
    [][(getTodos /\ ret.op = "createTodo" /\ ret.result.kind = "row") =>
          /\ Cardinality({i \in 1..Len(ListedNext) : ListedNext[i] = Returned}) = 1
          /\ ListedNext[1] = Returned]_vars

\* C13, the part that holds: the row is listed exactly once, and is first
\* when every other stored row has an earlier createdAt.
C13_CreatedListed ==
    [][(getTodos /\ ret.op = "createTodo" /\ ret.result.kind = "row") =>
          /\ Cardinality({i \in 1..Len(ListedNext) : ListedNext[i] = Returned}) = 1
          /\ (\A r \in todos \ {Returned} : TextLess(r.createdAt, Returned.createdAt))
                => ListedNext[1] = Returned]_vars

\* C14: getTodos returns every stored row once and nothing else, in
\* non-increasing order of createdAt, the empty sequence for an empty table,
\* and leaves the table as it was.
C14_ListAll ==
    [][getTodos =>
          /\ ret'.result.kind = "list"
          /\ Len(ListedNext) = Cardinality(todos)
          /\ {ListedNext[i] : i \in 1..Len(ListedNext)} = todos
          /\ \A i, j \in 1..Len(ListedNext) :
                i < j => TextLeq(ListedNext[j].createdAt, ListedNext[i].createdAt)
          /\ (todos = {} => ListedNext = << >>)
          /\ todos' = todos]_vars

\* C14 witness: getTodos listed two rows, the later created one first.
C14_ListedTwo ==
    /\ ret.op = "getTodos"
    /\ Len(ret.result.rows) = 2
    /\ TextLess(ret.result.rows[2].createdAt, ret.result.rows[1].createdAt)
    /\ {ret.result.rows[1], ret.result.rows[2]} = todos

\* C15: updateTodo with valid input for an id that a row has leaves every
\* other row as it was, keeps the row's id and createdAt, keeps title when no
\* title is supplied and completed when no completed is supplied, and assigns
\* the current time to the row's updatedAt.
StoredIds == {id \in IdInputs : ValidId(id) /\ id.int \in Ids(todos)}
RowOf(rows, id) == CHOOSE r \in rows : r.id = id

\* What updateTodo(id, title, completed) has to leave of the table: `after`
\* is the table after the call and `response` what the call returned.
UpdateFrame(id, title, completed, after, response) ==
    /\ {r \in after : r.id # id.int} = {r \in todos : r.id # id.int}
    /\ Cardinality(WhereId(after, id.int)) = 1
    /\ RowOf(after, id.int).createdAt = RowOf(todos, id.int).createdAt
    /\ (title = None => RowOf(after, id.int).title = RowOf(todos, id.int).title)
    /\ (title # None => RowOf(after, id.int).title = title[1])
    /\ (completed = None =>
          RowOf(after, id.int).completed = RowOf(todos, id.int).completed)
    /\ (completed # None => RowOf(after, id.int).completed = completed[1])
    /\ RowOf(after, id.int).updatedAt = toISOString(now)
    /\ response.result = ReturnRow(RowOf(after, id.int))

C15_UpdateFrame ==
    [][\A id \in StoredIds, title \in Optional(ShortTitles),
          completed \in Optional(BOOLEAN) :
          (updateTodo(id, title, completed) /\ TitleSchema(title))
             => UpdateFrame(id, title, completed, todos', ret')]_vars

\* C15, the part that holds: in every state, the same for every valid input
\* that supplies title or completed.
C15_SuppliedFieldsOnly ==
    \A id \in StoredIds, title \in Optional(ShortTitles),
       completed \in Optional(BOOLEAN) :
       (TitleSchema(title) /\ (title # None \/ completed # None))
          => UpdateFrame(id, title, completed,
                         updateTodoCall(id, title, completed).todos,
                         updateTodoCall(id, title, completed).ret)

\* C19: updateTodo with the id of a stored row and neither title nor
\* completed returns the row, title and completed as stored and updatedAt
\* the current time, and stores it so.
C19_EmptyUpdateReturnsRow ==
    [][\A id \in StoredIds :
          updateTodo(id, None, None) =>
             /\ ret'.result.kind = "row"
             /\ ReturnedNext.title = RowOf(todos, id.int).title
             /\ ReturnedNext.completed = RowOf(todos, id.int).completed
             /\ ReturnedNext.updatedAt = toISOString(now)
             /\ ReturnedNext \in todos']_vars

\* C20: every server function that returns (raises neither a validation
\* error nor another error) has had the database run exactly one statement.
C20_OneStorageAccess ==
    (ret.op # "none" /\ ret.result.kind \notin {"ValidationError", "Error"})
        => ret.accesses = 1

\* C20, the part that holds: every server function but toggleTodo runs one
\* statement when it returns; toggleTodo runs one when its SELECT finds no
\* row and two when it finds one.
C20_StorageAccesses ==
    (ret.op # "none" /\ ret.result.kind \notin {"ValidationError", "Error"})
        => IF ret.op = "toggleTodo"
           THEN ret.accesses \in {1, 2} /\ (ret.result.kind = "row" => ret.accesses = 2)
           ELSE ret.accesses = 1

\* C16: when a call for id 1 and a call for id 2, each a toggleTodo, an
\* updateTodo or a deleteTodo, have both returned, then however their
\* statements were interleaved the table and the two return values are
\* those of running the first call and then the second, and those of
\* running the second call and then the first, each call writing at the
\* clock reading it wrote at.
\* Serial(rows, p, ts): call p run on its own from table `rows`.
Serial(rows, p, ts) ==
    LET id == p.id.int
        set == IF p.op = "toggleTodo" /\ WhereId(rows, id) # {}
               THEN ToggleSet(Current(RowOf(rows, id)))
               ELSE [title |-> p.title, completed |-> p.completed]
    IN
    IF p.op = "deleteTodo"
    THEN [todos |-> rows \ WhereId(rows, id), result |-> Result("success", << >>, 0)]
    ELSE IF p.op = "updateTodo" /\ p.title = None /\ p.completed = None
    THEN [todos |-> rows, result |-> NoValuesToSet]
    ELSE IF p.op = "toggleTodo" /\ WhereId(rows, id) = {}
    THEN [todos |-> rows, result |-> ReturnNull]
    ELSE [todos |-> UpdateWhereId(rows, id, set, ts),
          result |-> Returning(rows, id, set, ts)]

PairBothReturned ==
    pair.on /\ pair.returned[1] # None /\ pair.returned[2] # None

SerialAgrees(first, second) ==
    LET a == Serial(pair.todos0, pair.plan[first],
                    toISOString(pair.returned[first][1].ts))
        b == Serial(a.todos, pair.plan[second],
                    toISOString(pair.returned[second][1].ts))
    IN /\ todos = b.todos
       /\ pair.returned[first][1].result = a.result
       /\ pair.returned[second][1].result = b.result

C16_DifferentIdsIndependent ==
    PairBothReturned => (SerialAgrees(1, 2) /\ SerialAgrees(2, 1))

\* C16 witness: a toggleTodo and a call that changed the other row have
\* both returned, one having run between the statements of the other.
C16_Interleaved ==
    /\ PairBothReturned
    /\ pair.overlapped
    /\ pair.plan[1].op = "toggleTodo"
    /\ \A id \in {1, 2} : WhereId(todos, id) # WhereId(pair.todos0, id)

\* C17: a handler of the page (handleCreate, handleToggle, handleDelete,
\* handleDeleteCompleted) that reaches its end has called router.invalidate()
\* if its server call resolved and has not if it rejected; the step in which
\* a handler calls router.invalidate() comes after its server function ran,
\* is a getTodos, and leaves the page displaying what that getTodos returned.
C17_InvalidateAfterSuccess ==
    [][\A h \in Handlers :
          /\ Finally(h) => (handlers[h].invalidated <=> handlers[h].ok)
          /\ handlers'[h].pc = "finally" =>
                (handlers'[h].invalidated <=> handlers'[h].ok)
          /\ (handlers'[h].invalidated /\ ~handlers[h].invalidated) =>
                /\ handlers[h].pc = "served"
                /\ ret'.op = "getTodos"
                /\ ret'.result.rows \in OrderByCreatedAtDesc(todos)
                /\ page'.todos = ret'.result.rows]_vars

\* C17 witness: handleToggle is at its finally block after its toggleTodo
\* resolved and router.invalidate() had the page display the toggled row.
C17_ToggledAndReloaded ==
    \E h \in Handlers :
        /\ handlers[h].pc = "finally"
        /\ handlers[h].fn = "handleToggle"
        /\ handlers[h].ok
        /\ handlers[h].invalidated
        /\ \E i \in 1..Len(page.todos) :
              page.todos[i].id = handlers[h].id /\ page.todos[i].completed

\* C17, the other case: handleDeleteCompleted is at its end after its server
\* call rejected, without having called router.invalidate().
C17_FailedNotReloaded ==
    \E h \in Handlers :
        /\ handlers[h].pc = "finally"
        /\ handlers[h].fn = "handleDeleteCompleted"
        /\ ~handlers[h].ok
        /\ ~handlers[h].invalidated

\* C18: the list the page displays changes only in a step in which a
\* handler whose server call resolved has the loader re-run, and becomes
\* what that getTodos returned; the server function running, its call
\* rejecting and the finally block of a handler whose call rejected leave
\* it as it is, so the page displays what it displayed before the call.
C18_ListChangesOnReloadOnly ==
    [][/\ page'.todos # page.todos =>
             /\ ret'.op = "getTodos"
             /\ page'.todos = ret'.result.rows
             /\ \E h \in Handlers :
                   /\ handlers[h].pc = "served"
                   /\ handlers'[h].ok
                   /\ handlers'[h].invalidated
       /\ \A h \in Handlers :
             (Serve(h) \/ Catch(h) \/ (Finally(h) /\ ~handlers[h].ok))
                => page'.todos = page.todos]_vars

\* C18 witness: a handleDelete whose deleteTodo removed the row but whose
\* call rejected is at its end, and the page still displays the row.
C18_FailedDeleteStillListed ==
    \E h \in Handlers :
        /\ handlers[h].pc = "finally"
        /\ handlers[h].fn = "handleDelete"
        /\ ~handlers[h].ok
        /\ handlers[h].id \in Displayed
        /\ handlers[h].id \notin Ids(todos)

\* C21: a toggleTodo whose SELECT found the row and whose UPDATE runs after
\* the row was removed (by deleteTodo or deleteCompletedTodos) returns null
\* without raising and leaves the table as it is: no row has the id
\* afterwards.
C21_ToggleAfterDelete ==
    [][\A c \in Calls :
          (toggleTodo_update(c) /\ calls[c].data.id[1].int \notin Ids(todos)) =>
             /\ ret'.op = "toggleTodo"
             /\ ret'.result.kind = "null"
             /\ todos' = todos
             /\ calls[c].data.id[1].int \notin Ids(todos')]_vars

\* C21 witness: toggleTodo returned null after both its statements ran, next
\* to a row that is still stored.
C21_ToggledDeletedRow ==
    /\ ret.op = "toggleTodo"
    /\ ret.result.kind = "null"
    /\ ret.accesses = 2
    /\ issued \ Ids(todos) # {}
    /\ todos # {}

\* C22: in every state of the page, an id for which a handleToggle or
\* handleDelete call is in flight is in loadingIds, and an id for which no
\* handleToggle or handleDelete is running is not.
RowHandlers(id) ==
    {h \in Handlers : handlers[h].fn \in {"handleToggle", "handleDelete"}
                        /\ handlers[h].id = id}
InFlight(id) == {h \in RowHandlers(id) : handlers[h].pc \in {"calling", "served"}}

C22_NotLoadingWhenDone ==
    \A id \in 1..MaxId : RowHandlers(id) = {} => id \notin page.loadingIds

\* C22 without overlap: a handleToggle is in flight for an id in loadingIds.
C22_Loading ==
    \E id \in 1..MaxId :
        /\ \E h \in InFlight(id) : handlers[h].fn = "handleToggle"
        /\ id \in page.loadingIds

\* C23: at most one handleCreate is running, and the title it sends is
\* trimmed and not empty; a handleCreate starts only when isCreating is false
\* and the input is not blank; every row createTodo inserts for the page has
\* the title of the running handleCreate; the input is emptied only by a
\* handleCreate whose createTodo resolved, and is left as it is when the call
\* rejects; and whenever isCreating is true it is false again later.
Creating == {h \in Handlers : handlers[h].fn = "handleCreate"}

CreateOneAtATime ==
    /\ Cardinality(Creating) <= 1
    /\ \A h \in Creating :
          /\ handlers[h].title # None
          /\ Trim(handlers[h].title[1]) = handlers[h].title[1]
          /\ StrLen(handlers[h].title[1]) >= MinTitleLen
          /\ page.isCreating

CreateSteps ==
    /\ \A h \in Handlers :
          (handlers[h].pc = "idle" /\ handlers'[h].fn = "handleCreate") =>
             /\ ~page.isCreating
             /\ StrLen(Trim(page.newTodoTitle)) >= MinTitleLen
             /\ handlers'[h].title = Some(Trim(page.newTodoTitle))
             /\ page'.isCreating
    /\ seq' # seq =>
          /\ ret'.op = "createTodo"
          /\ \E h \in Creating :
                /\ handlers[h].pc = "calling"
                /\ handlers'[h].pc = "served"
                /\ ReturnedNext.title = handlers[h].title[1]
    /\ (page'.newTodoTitle = Str(0, 0) /\ page.newTodoTitle # Str(0, 0)) =>
          \E h \in Creating : handlers[h].pc = "served" /\ handlers'[h].ok
    /\ \A h \in Creating :
          (handlers'[h].pc = "finally" /\ ~handlers'[h].ok)
             => page'.newTodoTitle = page.newTodoTitle

C23_SingleCreate ==
    /\ []CreateOneAtATime
    /\ [][CreateSteps]_vars
    /\ (page.isCreating ~> ~page.isCreating)

\* C23 witness: a second handleCreate is at its end after its createTodo
\* rejected: the first row is displayed, the input still holds what was
\* typed and isCreating is still true.
C23_SecondCreateFailed ==
    \E h \in Creating :
        /\ handlers[h].pc = "finally"
        /\ ~handlers[h].ok
        /\ page.isCreating
        /\ page.newTodoTitle # Str(0, 0)
        /\ Len(page.todos) = 1

====
